---- MODULE Spec2Model ----
(***************************************************************************)
(* Reconciliation workflow of the kuadrant-operator policy machinery       *)
(* controller: the event logger, the topology ConfigMap reconciler and the *)
(* Authorino CR reconciler run against a shared API server by concurrently *)
(* dispatched passes; the AuthPolicy status reconciler; the Limitador spec *)
(* mutator.                                                                *)
(***************************************************************************)
EXTENDS Naturals, Sequences, FiniteSets, TLC

\* ------------------------------------------------------------------------
\* Bounds
\* ------------------------------------------------------------------------

\* Number of changes the environment (users, garbage collector) makes to the
\* Kuadrant and Authorino objects of the cluster.
MaxEnv == 2

\* ------------------------------------------------------------------------
\* The cluster: API server objects, and the passes of the workflow
\* ------------------------------------------------------------------------

VARIABLES
    kuadrants,   \* API server: namespace -> "absent" | "live" | "deleting"
    authorinos,  \* API server: the Authorino objects, [ns, name, owner]
    cm,          \* API server: the topology ConfigMap, None or [data]
    dirty,       \* a change of the API server no dispatched topology has seen
    envSteps,    \* changes made by the environment so far
    pc,          \* the observed pass: the step of the workflow it is at
    topo,        \* the observed pass: the topology handed to it
    events,      \* the observed pass: the batch of resource events handed to it
    err,         \* the observed pass: whether it was handed an upstream error
    log,         \* the observed pass: the lines logged so far, <<level, message>>
    calls        \* the observed pass: the API calls issued so far, with results

clusterVars == <<kuadrants, authorinos, cm, dirty, envSteps, pc, topo, events, err, log, calls>>

VARIABLES
    policy,             \* API server: the AuthPolicy
    authConfig,         \* API server: its AuthConfig, "absent" | "notReady" | "ready"
    spc,                \* the step reconcileStatus is at
    ap,                 \* reconcileStatus: its argument ap, as the caller read it
    specErr,            \* reconcileStatus: its argument specErr
    isAuthConfigReady,  \* reconcileStatus: its local of that name
    newStatus,          \* reconcileStatus: the status calculated, or None
    updates,            \* reconcileStatus: the status updates issued, with results
    result              \* reconcileStatus: what it returned, [requeue, err]

statusVars == <<policy, authConfig, spc, ap, specErr, isAuthConfigReady, newStatus, updates, result>>

VARIABLES
    existing,           \* LimitadorMutator: its argument existingObj
    desired,            \* LimitadorMutator: its argument desiredObj
    update,             \* LimitadorMutator: the flag it returned
    mutErr,             \* LimitadorMutator: the error it returned, or NoErr
    before,             \* existingObj as it was when the latest call began
    mutCalls,           \* the calls of LimitadorMutator made so far
    calcAp,             \* calculateStatus: its argument ap
    calcErr,            \* calculateStatus: its argument specErr
    calcReady,          \* calculateStatus: its argument authConfigReady
    calcOut             \* calculateStatus: the status it returned, or NoStatus

pureVars == <<existing, desired, update, mutErr, before, mutCalls, calcAp, calcErr, calcReady, calcOut>>

vars == <<clusterVars, statusVars, pureVars>>

Namespaces == {"ns1", "ns2"}
\* No object (a nil pointer, an object the API server does not hold).
None == [none |-> TRUE]
\* The first root of a topology without a Kuadrant.
NoRoot == "none"

KuadrantKind == "Kuadrant"
AuthorinoKind == "Authorino"
ConfigMapKind == "ConfigMap"
CreateEvent == "create"
UpdateEvent == "update"
DeleteEvent == "delete"

Ev(k, t) == [kind |-> k, type |-> t]

\* The batches of resource events a pass may be handed.
EventBatches ==
    { <<Ev(KuadrantKind, CreateEvent)>>,
      <<Ev(AuthorinoKind, DeleteEvent)>>,
      <<Ev(ConfigMapKind, UpdateEvent), Ev(KuadrantKind, CreateEvent)>>,
      <<Ev(KuadrantKind, DeleteEvent), Ev(AuthorinoKind, CreateEvent)>> }

\* topology.ToDot(): the graph of the topology as text. It lists the objects
\* and their links; it holds neither the content of an object (the stored
\* text of the ConfigMap, its resourceVersion, a deletion timestamp) nor the
\* order in which the topology lists its roots.
ToDot(t) ==
    [ k |-> {n \in Namespaces : t.kuad[n] # "absent"},
      a |-> {o.ns : o \in t.auth},
      c |-> t.cm # None ]

\* The objects of the API server as a topology would show them.
Cluster == [kuad |-> kuadrants, auth |-> authorinos, cm |-> cm]

\* The Kuadrant objects among the roots of a topology (lo.FilterMap over
\* topology.Objects().Roots()).
Kobjs(t) == {n \in Namespaces : t.kuad[n] # "absent"}

Line(lvl, msg) == <<lvl, msg>>
Call(op, kind, res) == [op |-> op, kind |-> kind, res |-> res]

\* What a pass that is not running holds as its topology.
NoTopology == [kuad |-> [n \in Namespaces |-> "absent"], auth |-> {}, cm |-> None, first |-> NoRoot]

ClusterInit ==
    /\ kuadrants = [n \in Namespaces |-> "absent"]
    /\ authorinos = {}
    /\ cm = None
    /\ dirty = FALSE
    /\ envSteps = 0
    /\ pc = "idle"
    /\ topo = NoTopology
    /\ events = <<>>
    /\ err = FALSE
    /\ log = <<>>
    /\ calls = <<>>

\* --- the environment ----------------------------------------------------

CreateKuadrant(n) ==
    /\ envSteps < MaxEnv
    /\ kuadrants[n] = "absent"
    /\ kuadrants' = [kuadrants EXCEPT ![n] = "live"]
    /\ envSteps' = envSteps + 1
    /\ dirty' = TRUE
    /\ UNCHANGED <<authorinos, cm, pc, topo, events, err, log, calls>>
    /\ UNCHANGED <<statusVars, pureVars>>

MarkKuadrantForDeletion(n) ==
    /\ envSteps < MaxEnv
    /\ kuadrants[n] = "live"
    /\ kuadrants' = [kuadrants EXCEPT ![n] = "deleting"]
    /\ envSteps' = envSteps + 1
    /\ dirty' = TRUE
    /\ UNCHANGED <<authorinos, cm, pc, topo, events, err, log, calls>>
    /\ UNCHANGED <<statusVars, pureVars>>

DeleteAuthorino(o) ==
    /\ envSteps < MaxEnv
    /\ o \in authorinos
    /\ authorinos' = authorinos \ {o}
    /\ envSteps' = envSteps + 1
    /\ dirty' = TRUE
    /\ UNCHANGED <<kuadrants, cm, pc, topo, events, err, log, calls>>
    /\ UNCHANGED <<statusVars, pureVars>>


\* --- the pieces of the reconcilers --------------------------------------

\* controller.Destruct(obj): the object as the dynamic client takes it, or
\* nothing when the conversion fails.
Destruct(obj, fails) == IF fails THEN None ELSE obj

\* The API server's answer to a create call: a call without an object cannot
\* be served (it ends in an error or in a panic of the client, r says which),
\* r = "error" is any failure of the call itself, and an object of that name
\* may exist already.
ApiCreate(obj, exists, r) ==
    IF obj = None THEN r
    ELSE IF r = "error" THEN "error"
    ELSE IF exists THEN "alreadyExists"
    ELSE "created"

\* The API server's answer to the update call of the topology ConfigMap. The
\* object sent carries no resourceVersion, and the API server updates a
\* ConfigMap sent without one unconditionally, whatever was stored since the
\* topology was built.
ApiUpdate(obj, stored, r) ==
    IF obj = None THEN r
    ELSE IF r = "error" THEN "error"
    ELSE IF stored = None THEN "notFound"
    ELSE "updated"

\* The inputs of a step that calls the API server: whether Destruct fails,
\* and how the call ends when the server does not serve it.
CallInputs == {<<FALSE, "ok">>, <<FALSE, "error">>, <<TRUE, "error">>, <<TRUE, "panic">>}

\* The ConfigMap the topology file reconciler builds: name "topology" in the
\* operator's namespace, the topology label and the text. It is built anew
\* in every pass and carries no resourceVersion.
TopologyConfigMap(t) == [data |-> ToDot(t)]

\* A faulty variant: The reconciler updating whenever the topology shows a ConfigMap.
SyncOpNoCompare(t) == IF t.cm = None THEN "create" ELSE "update"

\* A faulty variant: The reconciler creating the ConfigMap and never updating it.
SyncOpCreateOnly(t) == IF t.cm = None THEN "create" ELSE "none"

\* The call TopologyFileReconciler.Reconcile issues for a topology: a create
\* when the topology shows no topology ConfigMap, an update when the text the
\* topology shows differs from the text built, and none otherwise.
SyncOp(t) ==
    IF t.cm = None THEN "create"
    ELSE IF t.cm.data # TopologyConfigMap(t).data THEN "update"
    ELSE "none"

\* The result of that call.
SyncResult(t, stored, in) ==
    CASE SyncOp(t) = "create" -> ApiCreate(Destruct(TopologyConfigMap(t), in[1]), stored # None, in[2])
      [] SyncOp(t) = "update" -> ApiUpdate(Destruct(TopologyConfigMap(t), in[1]), stored, in[2])
      [] OTHER -> "none"

\* The stored topology ConfigMap after the call.
SyncStored(t, stored, in) ==
    IF SyncResult(t, stored, in) \in {"created", "updated"} THEN TopologyConfigMap(t) ELSE stored

\* A faulty variant: The reconciler without its errors.IsAlreadyExists check.
SyncLinesNoAlreadyExists(d, op, res) ==
    (IF d THEN <<Line("error", "failed to destruct topology configmap")>> ELSE <<>>)
    \o (CASE op = "create" /\ res \in {"alreadyExists", "error"} ->
                <<Line("error", "failed to write topology configmap")>>
          [] op = "update" /\ res \in {"error", "notFound"} ->
                <<Line("error", "failed to update topology configmap")>>
          [] OTHER -> <<>>)

\* The lines TopologyFileReconciler.Reconcile logs, by the call's result.
SyncLines(d, op, res) ==
    (IF d THEN <<Line("error", "failed to destruct topology configmap")>> ELSE <<>>)
    \o (CASE op = "create" /\ res = "alreadyExists" ->
                <<Line("info", "already created topology configmap, must not be in topology yet")>>
          [] op = "create" /\ res = "error" ->
                <<Line("error", "failed to write topology configmap")>>
          [] op = "update" /\ res \in {"error", "notFound"} ->
                <<Line("error", "failed to update topology configmap")>>
          [] OTHER -> <<>>)

\* AuthorinoCrReconciler.Subscription(): the events the reconciler is run for.
Subscription == {Ev(KuadrantKind, CreateEvent), Ev(AuthorinoKind, DeleteEvent)}

\* A faulty variant: the reconciler run for every batch.
MatchesEveryBatch(b) == TRUE

\* Subscription.Reconcile runs the reconciler when an event of the batch
\* matches one of the subscription's matchers.
Matches(b) == \E i \in 1..Len(b) : b[i] \in Subscription

\* A faulty variant: The Authorino object with a name generated anew for every call.
AuthorinoGenerateName(kobj) ==
    [ns |-> kobj,
     name |-> IF \E o \in authorinos : o.name = "authorino" THEN "authorino-1" ELSE "authorino",
     owner |-> kobj]

\* The Authorino object the reconciler builds for the root Kuadrant kobj.
AuthorinoFor(kobj) == [ns |-> kobj, name |-> "authorino", owner |-> kobj]

\* A faulty variant: The reconciler without its check of the deletion timestamp.
EnsureDecisionNoDeletionCheck(t) ==
    IF Kobjs(t) = {} THEN "noKuadrant"
    ELSE IF t.auth # {} THEN "exists"
    ELSE "create"

\* How far AuthorinoCrReconciler.Reconcile gets on a topology: the early
\* return it takes, or "create" when it goes on to the create call.
EnsureDecision(t) ==
    IF Kobjs(t) = {} THEN "noKuadrant"
    ELSE IF t.kuad[t.first] = "deleting" THEN "rootDeleting"
    ELSE IF t.auth # {} THEN "exists"
    ELSE "create"

\* The result of the create call of the Authorino object.
EnsureResult(t, stored, in) ==
    IF EnsureDecision(t) = "create"
    THEN ApiCreate(Destruct(AuthorinoFor(t.first), in[1]),
                   \E o \in stored : o.ns = AuthorinoFor(t.first).ns
                                      /\ o.name = AuthorinoFor(t.first).name, in[2])
    ELSE "none"

\* The stored Authorino objects after the call.
EnsureStored(t, stored, in) ==
    IF EnsureResult(t, stored, in) = "created" THEN stored \cup {AuthorinoFor(t.first)} ELSE stored

\* A faulty variant: the first of several Kuadrants taken without a word.
EnsureLinesSilentChoice(t, dec, d, res) ==
    <<Line("info", "reconciling authorino resource started")>>
    \o (CASE dec = "noKuadrant" -> <<Line("info", "no kuadrant resources found")>>
          [] dec = "rootDeleting" -> <<Line("info", "root kuadrant marked for deletion")>>
          [] dec = "exists" -> <<Line("info", "authorino resource already exists, no need to create")>>
          [] OTHER ->
                (IF d THEN <<Line("error", "failed to destruct authorino")>> ELSE <<>>)
                \o <<Line("info", "creating authorino resource")>>
                \o (CASE res = "alreadyExists" -> <<Line("info", "already created authorino resource")>>
                      [] res = "error" -> <<Line("error", "failed to create authorino resource")>>
                      [] OTHER -> <<>>))
    \o <<Line("info", "reconciling authorino resource completed")>>

\* The lines AuthorinoCrReconciler.Reconcile logs.
EnsureLines(t, dec, d, res) ==
    <<Line("info", "reconciling authorino resource started")>>
    \o (IF Cardinality(Kobjs(t)) > 1
        THEN <<Line("error", "cannot select root Kuadrant resource")>> ELSE <<>>)
    \o (CASE dec = "noKuadrant" -> <<Line("info", "no kuadrant resources found")>>
          [] dec = "rootDeleting" -> <<Line("info", "root kuadrant marked for deletion")>>
          [] dec = "exists" -> <<Line("info", "authorino resource already exists, no need to create")>>
          [] OTHER ->
                (IF d THEN <<Line("error", "failed to destruct authorino")>> ELSE <<>>)
                \o <<Line("info", "creating authorino resource")>>
                \o (CASE res = "alreadyExists" -> <<Line("info", "already created authorino resource")>>
                      [] res = "error" -> <<Line("error", "failed to create authorino resource")>>
                      [] OTHER -> <<>>))
    \o <<Line("info", "reconciling authorino resource completed")>>

\* The lines EventLogger.Log logs: one per event and, when the pass was
\* handed an upstream error, the error after each.
EventLines(b, e) ==
    IF b = <<>> THEN <<>>
    ELSE [i \in 1..(IF e THEN 2 * Len(b) ELSE Len(b)) |->
            IF e /\ i % 2 = 0 THEN Line("error", "error passed to reconcile")
            ELSE Line("info", "new event")]

\* --- the workflow of the observed pass ----------------------------------

\* A faulty variant: the task of the outer workflow run before the task of the inner one.
SuccessorTasksSwapped(step) ==
    CASE step = "log" -> "ensure"
      [] step = "ensure" -> "sync"
      [] OTHER -> "done"

\* The step Workflow.Run goes on to, in the composition of buildReconciler:
\* the precondition of the outer workflow is the inner workflow (its
\* precondition EventLogger.Log, then its task TopologyFileReconciler), and
\* the task of the outer workflow, AuthorinoCrReconciler, comes after it.
Successor(step) ==
    CASE step = "log" -> "sync"
      [] step = "sync" -> "ensure"
      [] OTHER -> "done"

\* The dispatcher hands the pass a batch of events, the current topology and
\* possibly an upstream error, and runs the workflow built by buildReconciler.
Dispatch ==
    /\ pc = "idle"
    /\ \E b \in EventBatches, f \in Namespaces \cup {NoRoot}, e \in BOOLEAN :
          /\ IF Kobjs(Cluster) = {} THEN f = NoRoot ELSE f \in Kobjs(Cluster)
          /\ topo' = [kuad |-> kuadrants, auth |-> authorinos, cm |-> cm, first |-> f]
          /\ events' = b
          /\ err' = e
    /\ pc' = "log"
    /\ dirty' = FALSE
    /\ UNCHANGED <<kuadrants, authorinos, cm, envSteps, log, calls>>
    /\ UNCHANGED <<statusVars, pureVars>>

\* EventLogger.Log, the precondition of the inner workflow.
Log ==
    /\ pc = "log"
    /\ log' = log \o EventLines(events, err)
    /\ pc' = Successor("log")
    /\ UNCHANGED <<kuadrants, authorinos, cm, dirty, envSteps, topo, events, err, calls>>
    /\ UNCHANGED <<statusVars, pureVars>>

\* TopologyFileReconciler.Reconcile, the task of the inner workflow. A panic
\* of the client ends the pass.
Sync ==
    /\ pc = "sync"
    /\ \E in \in CallInputs :
        LET op  == SyncOp(topo)
            res == SyncResult(topo, cm, in)
        IN  /\ cm' = SyncStored(topo, cm, in)
            /\ dirty' = (dirty \/ cm' # cm)
            /\ log' = log \o SyncLines(in[1], op, res)
            /\ calls' = IF op = "none" THEN calls ELSE Append(calls, Call(op, ConfigMapKind, res))
            /\ pc' = IF res = "panic" THEN "done" ELSE Successor("sync")
    /\ UNCHANGED <<kuadrants, authorinos, envSteps, topo, events, err>>
    /\ UNCHANGED <<statusVars, pureVars>>

\* The task of the outer workflow: AuthorinoCrReconciler.Reconcile behind its
\* subscription.
Ensure ==
    /\ pc = "ensure"
    /\ \E in \in CallInputs :
        LET dec == EnsureDecision(topo)
            res == EnsureResult(topo, authorinos, in)
        IN  IF Matches(events)
            THEN /\ authorinos' = EnsureStored(topo, authorinos, in)
                 /\ dirty' = (dirty \/ authorinos' # authorinos)
                 /\ log' = log \o EnsureLines(topo, dec, in[1], res)
                 /\ calls' = IF dec = "create"
                             THEN Append(calls, Call("create", AuthorinoKind, res)) ELSE calls
            ELSE UNCHANGED <<authorinos, dirty, log, calls>>
    /\ pc' = Successor("ensure")
    /\ UNCHANGED <<kuadrants, cm, envSteps, topo, events, err>>
    /\ UNCHANGED <<statusVars, pureVars>>

\* The workflow returns to the dispatcher: the pass and what it held are gone.
Return ==
    /\ pc = "done"
    /\ pc' = "idle"
    /\ topo' = NoTopology
    /\ events' = <<>>
    /\ err' = FALSE
    /\ log' = <<>>
    /\ calls' = <<>>
    /\ UNCHANGED <<kuadrants, authorinos, cm, dirty, envSteps>>
    /\ UNCHANGED <<statusVars, pureVars>>

\* --- concurrently dispatched passes --------------------------------------

\* The same reconcilers run by a pass dispatched concurrently with the
\* observed one (another subscription, another replica of the operator): it
\* works on the topology current at its step, and its call is served.
PeerTopology(f) == [kuad |-> kuadrants, auth |-> authorinos, cm |-> cm, first |-> f]

PeerSync ==
    /\ cm' = SyncStored(PeerTopology(NoRoot), cm, <<FALSE, "ok">>)
    /\ cm' # cm
    /\ dirty' = TRUE
    /\ UNCHANGED <<kuadrants, authorinos, envSteps, pc, topo, events, err, log, calls>>
    /\ UNCHANGED <<statusVars, pureVars>>

PeerEnsure ==
    /\ \E f \in Kobjs(Cluster) :
          authorinos' = EnsureStored(PeerTopology(f), authorinos, <<FALSE, "ok">>)
    /\ authorinos' # authorinos
    /\ dirty' = TRUE
    /\ UNCHANGED <<kuadrants, cm, envSteps, pc, topo, events, err, log, calls>>
    /\ UNCHANGED <<statusVars, pureVars>>

ClusterNext ==
    \/ \E n \in Namespaces : CreateKuadrant(n)
    \/ \E n \in Namespaces : MarkKuadrantForDeletion(n)
    \/ \E o \in authorinos : DeleteAuthorino(o)
    \/ Dispatch
    \/ Log
    \/ Sync
    \/ Ensure
    \/ Return
    \/ PeerSync
    \/ PeerEnsure

\* ------------------------------------------------------------------------
\* The AuthPolicy status reconciler
\* ------------------------------------------------------------------------

\* Number of writes (of its spec or of its status) the stored AuthPolicy
\* takes: its resourceVersion starts at 1 and grows by one with every write.
MaxWrites == 5

APAvailableConditionType == "Available"
NoErr == "nil"
SpecErrs == {NoErr, "reconcile failed", "target not found"}
TargetKinds == {"HTTPRoute", "Gateway"}

Condition(type, status, reason, message) ==
    [type |-> type, status |-> status, reason |-> reason, message |-> message]

\* A faulty variant: The condition with readiness looked at before the spec error.
availableConditionReadinessFirst(targetNetworkObjectectKind, e, authConfigReady) ==
    IF ~authConfigReady
    THEN Condition(APAvailableConditionType, "False", "AuthSchemeNotReady", "AuthScheme is not ready yet")
    ELSE IF e # NoErr
    THEN Condition(APAvailableConditionType, "False", "ReconciliationError", e)
    ELSE Condition(APAvailableConditionType, "True",
                   targetNetworkObjectectKind \o "Protected",
                   targetNetworkObjectectKind \o " is protected")

\* AuthPolicyReconciler.availableCondition.
availableCondition(targetNetworkObjectectKind, e, authConfigReady) ==
    IF e # NoErr
    THEN Condition(APAvailableConditionType, "False", "ReconciliationError", e)
    ELSE IF ~authConfigReady
    THEN Condition(APAvailableConditionType, "False", "AuthSchemeNotReady", "AuthScheme is not ready yet")
    ELSE Condition(APAvailableConditionType, "True",
                   targetNetworkObjectectKind \o "Protected",
                   targetNetworkObjectectKind \o " is protected")

\* A faulty variant: the new condition appended whatever the list holds.
SetStatusConditionAppend(conditions, c) == Append(conditions, c)

\* meta.SetStatusCondition: the first condition of the new one's type is
\* replaced, and the new one is appended when there is none.
SetStatusCondition(conditions, c) ==
    IF \E i \in 1..Len(conditions) : conditions[i].type = c.type
    THEN LET i == CHOOSE i \in 1..Len(conditions) :
                    /\ conditions[i].type = c.type
                    /\ \A j \in 1..(i - 1) : conditions[j].type # c.type
         IN  [conditions EXCEPT ![i] = c]
    ELSE Append(conditions, c)

\* common.CopyConditions: a copy of the list.
CopyConditions(conditions) == [i \in 1..Len(conditions) |-> conditions[i]]

\* AuthPolicyReconciler.calculateStatus.
calculateStatus(o, e, authConfigReady) ==
    [ conditions |-> SetStatusCondition(CopyConditions(o.status.conditions),
                                        availableCondition(o.kind, e, authConfigReady)),
      observedGeneration |-> o.status.observedGeneration ]

\* Whether the list common.CopyConditions returns shares the storage of the
\* list it was given: it does not, the copy is a list of its own.
CopyConditionsShares == FALSE

\* The argument ap of calculateStatus as the call leaves it. The call writes
\* to the list of newStatus only (meta.SetStatusCondition replaces a
\* condition in place); the argument would show that write if the two lists
\* shared their storage.
calculateStatusArgument(o, e, authConfigReady) ==
    IF CopyConditionsShares
    THEN [o EXCEPT !.status.conditions =
            [i \in 1..Len(@) |->
                SetStatusCondition(@, availableCondition(o.kind, e, authConfigReady))[i]]]
    ELSE o

\* AuthPolicyStatus.Equals: the conditions compared whatever their order,
\* the observed generation left out.
StatusEquals(a, b) ==
    {a.conditions[i] : i \in 1..Len(a.conditions)} = {b.conditions[i] : i \in 1..Len(b.conditions)}

\* A faulty variant: The guard without its comparison of the generations.
UpToDateIgnoringGeneration(o, new) == StatusEquals(o.status, new)

\* reconcileStatus: "Status up-to-date. No changes required."
UpToDate(o, new) ==
    StatusEquals(o.status, new) /\ o.generation = o.status.observedGeneration

\* A faulty variant: The status written with the observed generation it was read with.
StatusToWriteKeepingGeneration(o, new) == new

\* reconcileStatus: the status it writes carries the generation acted on.
StatusToWrite(o, new) == [new EXCEPT !.observedGeneration = o.generation]

\* The API server's answer to Status().Update(ctx, ap): the object carries the
\* resourceVersion it was read with, and the update is refused with a
\* conflict when the stored object has another.
ApiStatusUpdate(o, stored, fails) ==
    IF fails THEN "error"
    ELSE IF o.resourceVersion # stored.resourceVersion THEN "conflict"
    ELSE "updated"

\* A faulty variant: a conflict returned as an error, like any other failure.
UpdateReturnConflictIsError(res) ==
    CASE res \in {"conflict", "error"} -> [requeue |-> FALSE, err |-> TRUE]
      [] OTHER -> [requeue |-> FALSE, err |-> FALSE]

\* What reconcileStatus returns after its status update.
UpdateReturn(res) ==
    CASE res = "conflict" -> [requeue |-> TRUE, err |-> FALSE]
      [] res = "error" -> [requeue |-> FALSE, err |-> TRUE]
      [] OTHER -> [requeue |-> FALSE, err |-> FALSE]

NoStatus == [none |-> TRUE]
NoResult == [requeue |-> FALSE, err |-> FALSE]
NoObject == [generation |-> 0, resourceVersion |-> 0, kind |-> "HTTPRoute",
             status |-> [conditions |-> <<>>, observedGeneration |-> 0]]

StatusInit ==
    /\ policy = [generation |-> 1, resourceVersion |-> 1, kind |-> "HTTPRoute",
                 status |-> [conditions |-> <<>>, observedGeneration |-> 0]]
    /\ authConfig = "absent"
    /\ spc = "idle"
    /\ ap = NoObject
    /\ specErr = NoErr
    /\ isAuthConfigReady = TRUE
    /\ newStatus = NoStatus
    /\ updates = <<>>
    /\ result = NoResult

\* A user changes the spec of the AuthPolicy: a new generation.
UpdateSpec ==
    /\ policy.resourceVersion < MaxWrites
    /\ \E k \in TargetKinds :
          policy' = [policy EXCEPT !.generation = @ + 1, !.resourceVersion = @ + 1, !.kind = k]
    /\ UNCHANGED <<authConfig, spc, ap, specErr, isAuthConfigReady, newStatus, updates, result>>
    /\ UNCHANGED <<clusterVars, pureVars>>

\* Another agent writes a condition of its own to the status.
OtherAgentWritesStatus ==
    /\ policy.resourceVersion < MaxWrites
    /\ \E st \in {"True", "False"} :
          /\ Condition("Enforced", st, "Enforced", "") \notin
                {policy.status.conditions[i] : i \in 1..Len(policy.status.conditions)}
          /\ policy' = [policy EXCEPT
                !.status.conditions = SetStatusCondition(@, Condition("Enforced", st, "Enforced", "")),
                !.resourceVersion = @ + 1]
    /\ UNCHANGED <<authConfig, spc, ap, specErr, isAuthConfigReady, newStatus, updates, result>>
    /\ UNCHANGED <<clusterVars, pureVars>>

\* The AuthConfig of the policy appears, becomes ready, or stops being ready.
AuthConfigChanges ==
    /\ \E a \in {"absent", "notReady", "ready"} : a # authConfig /\ authConfig' = a
    /\ UNCHANGED <<policy, spc, ap, specErr, isAuthConfigReady, newStatus, updates, result>>
    /\ UNCHANGED <<clusterVars, pureVars>>

\* The caller reads the AuthPolicy, reconciles its spec, and calls
\* reconcileStatus with the object and the error of that reconciliation.
BeginStatus ==
    /\ spc = "idle"
    /\ policy.resourceVersion < MaxWrites
    /\ ap' = policy
    /\ specErr' \in SpecErrs
    /\ spc' = "fetch"
    /\ UNCHANGED <<policy, authConfig, isAuthConfigReady, newStatus, updates, result>>
    /\ UNCHANGED <<clusterVars, pureVars>>

\* A faulty variant: the AuthConfig fetched whether there is a spec error or not.
FetchAuthConfigAlways ==
    /\ spc = "fetch"
    /\ \E fails \in BOOLEAN :
          IF fails \/ authConfig = "absent"
          THEN /\ result' = [requeue |-> FALSE, err |-> TRUE]
               /\ spc' = "done"
               /\ UNCHANGED isAuthConfigReady
          ELSE /\ isAuthConfigReady' = (authConfig = "ready")
               /\ spc' = "update"
               /\ UNCHANGED result
    /\ UNCHANGED <<policy, authConfig, ap, specErr, newStatus, updates>>
    /\ UNCHANGED <<clusterVars, pureVars>>

\* reconcileStatus, to the fetch of the AuthConfig: skipped when there is a
\* spec error, and its failure is returned.
FetchAuthConfig ==
    /\ spc = "fetch"
    /\ \E fails \in BOOLEAN :
          IF specErr # NoErr
          THEN /\ isAuthConfigReady' = TRUE
               /\ spc' = "update"
               /\ UNCHANGED result
          ELSE IF fails \/ authConfig = "absent"
          THEN /\ result' = [requeue |-> FALSE, err |-> TRUE]
               /\ spc' = "done"
               /\ UNCHANGED isAuthConfigReady
          ELSE /\ isAuthConfigReady' = (authConfig = "ready")
               /\ spc' = "update"
               /\ UNCHANGED result
    /\ UNCHANGED <<policy, authConfig, ap, specErr, newStatus, updates>>
    /\ UNCHANGED <<clusterVars, pureVars>>

\* reconcileStatus, from calculateStatus to its return.
UpdateStatus ==
    /\ spc = "update"
    /\ \E fails \in BOOLEAN :
        LET new == calculateStatus(ap, specErr, isAuthConfigReady)
            w   == StatusToWrite(ap, new)
            res == ApiStatusUpdate(ap, policy, fails)
        IN  /\ newStatus' = new
            /\ IF UpToDate(ap, new)
               THEN /\ result' = NoResult
                    /\ UNCHANGED <<policy, ap, updates>>
               ELSE /\ ap' = [ap EXCEPT !.status = w]
                    /\ updates' = Append(updates, [status |-> w, res |-> res])
                    /\ policy' = IF res = "updated"
                                 THEN [policy EXCEPT !.status = w, !.resourceVersion = @ + 1]
                                 ELSE policy
                    /\ result' = UpdateReturn(res)
    /\ spc' = "done"
    /\ UNCHANGED <<authConfig, specErr, isAuthConfigReady>>
    /\ UNCHANGED <<clusterVars, pureVars>>

\* reconcileStatus has returned; the caller is done with the object.
ReturnStatus ==
    /\ spc = "done"
    /\ spc' = "idle"
    /\ ap' = NoObject
    /\ specErr' = NoErr
    /\ isAuthConfigReady' = TRUE
    /\ newStatus' = NoStatus
    /\ updates' = <<>>
    /\ result' = NoResult
    /\ UNCHANGED <<policy, authConfig>>
    /\ UNCHANGED <<clusterVars, pureVars>>

StatusNext ==
    \/ UpdateSpec
    \/ OtherAgentWritesStatus
    \/ AuthConfigChanges
    \/ BeginStatus
    \/ FetchAuthConfig
    \/ UpdateStatus
    \/ ReturnStatus

\* ------------------------------------------------------------------------
\* The pure functions: LimitadorMutator and calculateStatus
\* ------------------------------------------------------------------------

\* Number of calls of LimitadorMutator made in a row on the same two objects.
MaxCalls == 2

LimitadorType == "*v1alpha1.Limitador"
ConfigMapType == "*v1.ConfigMap"

\* limitadorv1alpha1.LimitadorSpec: the five fields the mutator manages, and
\* two of the fields it does not.
LimitadorSpecs ==
    [ affinity : {"nil", "zoneA"},
      podDisruptionBudget : {"nil", "maxUnavailable1"},
      replicas : {1, 2},
      resourceRequirements : {"nil", "cpu500m"},
      storage : {"nil", "redis"},
      version : {"v1", "v2"},
      limits : {"none", "perUser"} ]

Limitadors == [type : {LimitadorType}, spec : LimitadorSpecs]

\* A client.Object that is not a Limitador.
OtherObject == [type |-> ConfigMapType]

\* A faulty variant: The subset without the storage.
limitadorSpecSubSetNoStorage(spec) ==
    [ affinity |-> spec.affinity,
      podDisruptionBudget |-> spec.podDisruptionBudget,
      replicas |-> spec.replicas,
      resourceRequirements |-> spec.resourceRequirements,
      storage |-> "nil" ]

\* limitadorSpecSubSet: the v1beta1.LimitadorSpec of a LimitadorSpec.
limitadorSpecSubSet(spec) ==
    [ affinity |-> spec.affinity,
      podDisruptionBudget |-> spec.podDisruptionBudget,
      replicas |-> spec.replicas,
      resourceRequirements |-> spec.resourceRequirements,
      storage |-> spec.storage ]

\* A faulty variant: an object of another type answered with no update and no error.
LimitadorMutatorSilentMismatch(existingObj, desiredObj) ==
    IF existingObj.type # LimitadorType \/ desiredObj.type # LimitadorType
    THEN <<FALSE, NoErr, existingObj>>
    ELSE IF limitadorSpecSubSet(existingObj.spec) # limitadorSpecSubSet(desiredObj.spec)
    THEN <<TRUE, NoErr,
           [existingObj EXCEPT !.spec.affinity = desiredObj.spec.affinity,
                               !.spec.podDisruptionBudget = desiredObj.spec.podDisruptionBudget,
                               !.spec.replicas = desiredObj.spec.replicas,
                               !.spec.resourceRequirements = desiredObj.spec.resourceRequirements,
                               !.spec.storage = desiredObj.spec.storage]>>
    ELSE <<FALSE, NoErr, existingObj>>

\* A faulty variant: the storage compared and never copied.
LimitadorMutatorForgetsStorage(existingObj, desiredObj) ==
    IF existingObj.type # LimitadorType
    THEN <<FALSE, existingObj.type \o " is not a *limitadorv1alpha1.Limitador", existingObj>>
    ELSE IF desiredObj.type # LimitadorType
    THEN <<FALSE, existingObj.type \o " is not a *limitadorv1alpha1.Limitador", existingObj>>
    ELSE IF limitadorSpecSubSet(existingObj.spec) # limitadorSpecSubSet(desiredObj.spec)
    THEN <<TRUE, NoErr,
           [existingObj EXCEPT !.spec.affinity = desiredObj.spec.affinity,
                               !.spec.podDisruptionBudget = desiredObj.spec.podDisruptionBudget,
                               !.spec.replicas = desiredObj.spec.replicas,
                               !.spec.resourceRequirements = desiredObj.spec.resourceRequirements]>>
    ELSE <<FALSE, NoErr, existingObj>>

\* LimitadorMutator: <<update, error, existingObj as the call leaves it>>.
LimitadorMutator(existingObj, desiredObj) ==
    IF existingObj.type # LimitadorType
    THEN <<FALSE, existingObj.type \o " is not a *limitadorv1alpha1.Limitador", existingObj>>
    ELSE IF desiredObj.type # LimitadorType
    THEN <<FALSE, existingObj.type \o " is not a *limitadorv1alpha1.Limitador", existingObj>>
    ELSE IF limitadorSpecSubSet(existingObj.spec) # limitadorSpecSubSet(desiredObj.spec)
    THEN <<TRUE, NoErr,
           [existingObj EXCEPT !.spec.affinity = desiredObj.spec.affinity,
                               !.spec.podDisruptionBudget = desiredObj.spec.podDisruptionBudget,
                               !.spec.replicas = desiredObj.spec.replicas,
                               !.spec.resourceRequirements = desiredObj.spec.resourceRequirements,
                               !.spec.storage = desiredObj.spec.storage]>>
    ELSE <<FALSE, NoErr, existingObj>>

\* The conditions a policy object may hold when its status is calculated.
ConditionLists ==
    { <<>>,
      <<Condition("Enforced", "True", "Enforced", "")>>,
      <<Condition(APAvailableConditionType, "True", "HTTPRouteProtected", "HTTPRoute is protected")>>,
      <<Condition("Enforced", "False", "Unknown", ""),
        Condition(APAvailableConditionType, "False", "AuthSchemeNotReady", "AuthScheme is not ready yet")>>,
      <<Condition(APAvailableConditionType, "False", "ReconciliationError", "reconcile failed"),
        Condition("Enforced", "True", "Enforced", "")>> }

PolicyObjects ==
    [ generation : {1, 2}, resourceVersion : {1}, kind : TargetKinds,
      status : [conditions : ConditionLists, observedGeneration : {0, 1}] ]

\* No call of either function has been made and no input is held.
PureIdle ==
    /\ existing = OtherObject
    /\ desired = OtherObject
    /\ update = FALSE
    /\ mutErr = NoErr
    /\ before = OtherObject
    /\ mutCalls = 0
    /\ calcAp = NoObject
    /\ calcErr = NoErr
    /\ calcReady = TRUE
    /\ calcOut = NoStatus

\* The inputs of the mutator.
MutatorInputs ==
    /\ existing \in Limitadors \cup {OtherObject}
    /\ desired \in Limitadors \cup {OtherObject}
    /\ update = FALSE
    /\ mutErr = NoErr
    /\ before = existing
    /\ mutCalls = 0
    /\ calcAp = NoObject
    /\ calcErr = NoErr
    /\ calcReady = TRUE
    /\ calcOut = NoStatus

\* The inputs of calculateStatus.
StatusInputs ==
    /\ existing = OtherObject
    /\ desired = OtherObject
    /\ update = FALSE
    /\ mutErr = NoErr
    /\ before = OtherObject
    /\ mutCalls = 0
    /\ calcAp \in PolicyObjects
    /\ calcErr \in SpecErrs
    /\ calcReady \in BOOLEAN
    /\ calcOut = NoStatus

\* A call LimitadorMutator(existing, desired).
CallLimitadorMutator ==
    /\ mutCalls < MaxCalls
    /\ mutCalls' = mutCalls + 1
    /\ before' = existing
    /\ update' = LimitadorMutator(existing, desired)[1]
    /\ mutErr' = LimitadorMutator(existing, desired)[2]
    /\ existing' = LimitadorMutator(existing, desired)[3]
    /\ UNCHANGED <<desired, calcAp, calcErr, calcReady, calcOut>>
    /\ UNCHANGED <<clusterVars, statusVars>>

\* A call calculateStatus(ap, specErr, authConfigReady).
CallCalculateStatus ==
    /\ calcAp # NoObject
    /\ calcOut = NoStatus
    /\ calcOut' = calculateStatus(calcAp, calcErr, calcReady)
    /\ calcAp' = calculateStatusArgument(calcAp, calcErr, calcReady)
    /\ UNCHANGED <<existing, desired, update, mutErr, before, mutCalls, calcErr, calcReady>>
    /\ UNCHANGED <<clusterVars, statusVars>>

PureNext ==
    \/ CallLimitadorMutator
    \/ CallCalculateStatus

\* ------------------------------------------------------------------------
\* Specifications
\* ------------------------------------------------------------------------

Init == ClusterInit /\ StatusInit /\ PureIdle

InitPure == ClusterInit /\ StatusInit /\ (MutatorInputs \/ StatusInputs)

\* The workflow and the cluster.
Spec == Init /\ [][ClusterNext]_vars

\* The AuthPolicy status reconciler.
SpecStatus == Init /\ [][StatusNext]_vars

\* The pure functions, on every input.
SpecPure == InitPure /\ [][PureNext]_vars

\* ------------------------------------------------------------------------
\* Properties of the workflow
\* ------------------------------------------------------------------------

\* The steps of the observed pass, and what a step adds to its log and calls.
SyncStep == pc = "sync" /\ pc' # "sync"
EnsureStep == pc = "ensure" /\ pc' = "done"
NewLines == SubSeq(log', Len(log) + 1, Len(log'))
NewCalls == SubSeq(calls', Len(calls) + 1, Len(calls'))
ErrorsIn(lines) == {lines[i][2] : i \in {j \in 1..Len(lines) : lines[j][1] = "error"}}
InfosIn(lines) == {lines[i][2] : i \in {j \in 1..Len(lines) : lines[j][1] = "info"}}
CallsOf(kind) == {calls[i] : i \in {j \in 1..Len(calls) : calls[j].kind = kind}}

\* The Ensurer runs its body on a topology whose selected root is live.
EnsureRunsOnLiveRoot ==
    /\ EnsureStep
    /\ Matches(events)
    /\ Cardinality(Kobjs(topo)) = 1
    /\ topo.kuad[topo.first] = "live"
    /\ \A i \in 1..Len(calls') : calls'[i].res # "panic"

C2_NoBackendUnderDeletedRoot ==
    [][(EnsureStep /\ Kobjs(topo) # {} /\ topo.kuad[topo.first] = "deleting")
       => (calls' = calls /\ authorinos' = authorinos)]_vars

\* The Ensurer ran on a deletion-marked root with no Authorino in sight.
C2_Witness ==
    /\ pc = "done"
    /\ Matches(events)
    /\ topo.first # NoRoot
    /\ topo.kuad[topo.first] = "deleting"
    /\ topo.auth = {}
    /\ authorinos = {}
    /\ "root kuadrant marked for deletion" \in InfosIn(log)

\* C3 (as stated): a pass handed the topology an earlier pass has already
\* written to the record issues no create and no update.
C3_NoCallOnUnchangedTopology ==
    [][(SyncStep /\ cm # None /\ cm.data = ToDot(topo)) => calls' = calls]_vars

\* C3 (amended): a pass handed the topology an earlier pass has already
\* written to the record leaves the record as it is; it issues no call at
\* all when its topology shows the record holding that text; and it issues an
\* update exactly when its topology shows a record holding another text.
C3_IdempotentSnapshotWrite ==
    [][SyncStep =>
        /\ (cm # None /\ cm.data = ToDot(topo)) => cm' = cm
        /\ (topo.cm # None /\ topo.cm.data = ToDot(topo)) => (calls' = calls /\ cm' = cm)
        /\ (\E i \in 1..Len(NewCalls) : NewCalls[i].op = "update")
              <=> (topo.cm # None /\ topo.cm.data # ToDot(topo))
        /\ (\E i \in 1..Len(NewCalls) : NewCalls[i].op = "create") <=> topo.cm = None
      ]_vars

\* The second pass on an unchanged topology: the record holds the text of the
\* pass's topology, which shows a record, and the pass has issued no call.
C3_Witness ==
    /\ pc = "ensure"
    /\ topo.cm # None
    /\ cm = TopologyConfigMap(topo)
    /\ Kobjs(topo) # {}
    /\ calls = <<>>

\* C4: a create call answered already-exists, of the topology ConfigMap or
\* of the Authorino, is taken as success: no error is logged for it, the
\* pass goes on to its next step, the call is not repeated, and the stored
\* object is left as it was.
C4_AlreadyExistsIsSuccess ==
    [][/\ (SyncStep /\ NewCalls # <<>> /\ NewCalls[1].res = "alreadyExists")
            => /\ cm' = cm
               /\ Len(NewCalls) = 1
               /\ ErrorsIn(NewLines) = {}
               /\ pc' = "ensure"
       /\ (EnsureStep /\ NewCalls # <<>> /\ NewCalls[1].res = "alreadyExists")
            => /\ authorinos' = authorinos
               /\ Len(NewCalls) = 1
               /\ ErrorsIn(NewLines) \subseteq {"cannot select root Kuadrant resource"}
               /\ Cardinality(Kobjs(topo)) = 1 => ErrorsIn(NewLines) = {}
               /\ "already created authorino resource" \in InfosIn(NewLines)
      ]_vars

\* Both create calls of one pass were answered already-exists.
C4_Witness ==
    /\ pc = "done"
    /\ calls = <<Call("create", ConfigMapKind, "alreadyExists"),
                 Call("create", AuthorinoKind, "alreadyExists")>>
    /\ ErrorsIn(log) = {}

\* C9 (as stated): a write based on a stale read is refused by the store:
\* when the stored topology ConfigMap is no longer the one the pass's
\* topology shows, the pass's write leaves the stored one as it is.
C9_StaleWriteIsRefused ==
    [][(SyncStep /\ topo.cm # cm) => cm' = cm]_vars

\* The last pass has run to its end and nothing has changed since it was
\* dispatched.
Quiescent == pc = "done" /\ ~dirty /\ \A i \in 1..Len(calls) : calls[i].res # "panic"

\* The calls of the pass for the topology ConfigMap were served.
SyncServed == \A c \in CallsOf(ConfigMapKind) : c.res \notin {"error", "notFound"}

C11_WorkflowOrdering ==
    /\ [](pc \in {"sync", "ensure"} => Len(log) >= Len(events))
    /\ [](pc \in {"log", "sync"} => CallsOf(AuthorinoKind) = {})
    /\ [](pc = "log" => calls = <<>> /\ log = <<>>)
    /\ [][/\ pc' # pc =>
                <<pc, pc'>> \in { <<"idle", "log">>, <<"log", "sync">>, <<"sync", "ensure">>,
                                  <<"sync", "done">>, <<"ensure", "done">>, <<"done", "idle">> }
          /\ (pc' # "idle" /\ "new event" \in InfosIn(NewLines)) => (pc = "log" /\ pc' = "sync")
          /\ (\E i \in 1..Len(NewCalls) : NewCalls[i].kind = ConfigMapKind) =>
                (pc = "sync" /\ pc' \in {"ensure", "done"})
          /\ (\E i \in 1..Len(NewCalls) : NewCalls[i].kind = AuthorinoKind) =>
                (pc = "ensure" /\ pc' = "done")
       ]_vars

\* C11 witness: a pass has logged its events, then issued its ConfigMap
\* call, then its Authorino call, and is at its end.
C11_Witness ==
    /\ pc = "done"
    /\ Len(calls) = 2
    /\ calls[1].kind = ConfigMapKind /\ calls[1].res = "created"
    /\ calls[2].kind = AuthorinoKind /\ calls[2].res = "created"
    /\ log[1] = Line("info", "new event")

\* C12 as stated: whatever fails inside TopologyFileReconciler.Reconcile (the
\* conversion of the ConfigMap, its create, its update), the failure is
\* logged and goes no further: the pass goes on to
\* AuthorinoCrReconciler.Reconcile with the same events, topology and error.
C12_SyncFailureNeverStopsThePass ==
    [][SyncStep =>
        /\ pc' = "ensure"
        /\ topo' = topo /\ events' = events /\ err' = err
        /\ (NewCalls # <<>> /\ NewCalls[1].res \notin {"created", "updated", "alreadyExists"}) =>
                ErrorsIn(NewLines) # {}
    ]_vars

\* A step of the pass in which controller.Destruct failed.
DestructFailed ==
    \/ "failed to destruct topology configmap" \in ErrorsIn(NewLines)
    \/ "failed to destruct authorino" \in ErrorsIn(NewLines)

\* C14 as stated: when the conversion of the ConfigMap or of the Authorino
\* fails, the error is logged, nothing is written to the store, and the pass
\* continues: the step ends as a step without a write does, and not in a
\* panic of the client.
C14_DestructFailureSkipsTheWrite ==
    [][((SyncStep \/ EnsureStep) /\ DestructFailed) =>
        /\ cm' = cm
        /\ authorinos' = authorinos
        /\ \A i \in 1..Len(NewCalls) : NewCalls[i].res # "panic"
        /\ SyncStep => pc' = "ensure"
    ]_vars

\* The batch of the pass holds a create of a Kuadrant or a delete of an
\* Authorino.
Triggered ==
    \E i \in 1..Len(events) :
        \/ events[i].kind = "Kuadrant" /\ events[i].type = "create"
        \/ events[i].kind = "Authorino" /\ events[i].type = "delete"

\* C13: Ensurer trigger condition. The body of AuthorinoCrReconciler.Reconcile
\* runs for a batch only if the batch holds a create of a Kuadrant or a
\* delete of an Authorino: for any other batch its step logs nothing, issues
\* no create call and leaves the Authorinos as they are, while EventLogger.Log
\* has logged every event of the batch and TopologyFileReconciler.Reconcile
\* has issued its call where the topology asks for one.
C13_EnsurerTriggerCondition ==
    [][/\ (EnsureStep /\ ~Triggered) =>
                (NewLines = <<>> /\ NewCalls = <<>> /\ authorinos' = authorinos)
       /\ (EnsureStep /\ NewLines # <<>>) => Triggered
       /\ (EnsureStep /\ Triggered) =>
                "reconciling authorino resource started" \in InfosIn(NewLines)
       /\ (pc = "log" /\ pc' # "log") =>
                Cardinality({i \in 1..Len(NewLines) : NewLines[i] = Line("info", "new event")})
                    = Len(events)
       /\ (SyncStep /\ topo.cm = None) =>
                (Len(NewCalls) = 1 /\ NewCalls[1].kind = ConfigMapKind /\ NewCalls[1].op = "create")
    ]_vars

\* C13 witness: a pass for a batch with no such event, on a topology with a
\* live Kuadrant and no Authorino, has logged its events and created the
\* ConfigMap, and has ended without a call for an Authorino.
C13_Witness ==
    /\ pc = "done"
    /\ events # <<>>
    /\ ~Triggered
    /\ topo.first # NoRoot /\ topo.kuad[topo.first] = "live" /\ topo.auth = {}
    /\ Len(log) = Len(events)
    /\ Len(calls) = 1 /\ calls[1].kind = ConfigMapKind /\ calls[1].res = "created"
    /\ authorinos = {}

\* The Kuadrants among the roots of the topology of the pass.
RootsOfPass == {n \in DOMAIN topo.kuad : topo.kuad[n] # "absent"}

\* C18: Root selection in the Ensurer. With no Kuadrant among the roots of
\* the topology the pass of AuthorinoCrReconciler.Reconcile issues no call
\* and changes nothing. With more than one, it logs the error "cannot select
\* root Kuadrant resource" and goes on with the first only. A pass issues at
\* most one create call, and an Authorino it creates is owned by the first
\* root and placed in the namespace of the first root.
C18_RootSelection ==
    [][(EnsureStep /\ Triggered) =>
        /\ RootsOfPass = {} =>
                (NewCalls = <<>> /\ authorinos' = authorinos /\ ErrorsIn(NewLines) = {})
        /\ Cardinality(RootsOfPass) > 1 =>
                /\ "cannot select root Kuadrant resource" \in ErrorsIn(NewLines)
                /\ (topo.kuad[topo.first] = "live" /\ topo.auth = {}) => Len(NewCalls) = 1
        /\ Cardinality(RootsOfPass) = 1 =>
                "cannot select root Kuadrant resource" \notin ErrorsIn(NewLines)
        /\ Len(NewCalls) <= 1
        /\ \A i \in 1..Len(NewCalls) :
                NewCalls[i].op = "create" /\ NewCalls[i].kind = "Authorino"
        /\ \A o \in authorinos' \ authorinos :
                o.ns = topo.first /\ o.owner = topo.first /\ o.name = "authorino"
        /\ Cardinality(authorinos' \ authorinos) <= 1
    ]_vars

\* C18 witness: a pass on a topology with Kuadrants in both namespaces, the
\* one of ns2 first, has logged the anomaly and created the Authorino of ns2.
C18_Witness ==
    /\ pc = "done"
    /\ Cardinality(RootsOfPass) = 2
    /\ topo.first = "ns2"
    /\ "cannot select root Kuadrant resource" \in ErrorsIn(log)
    /\ \E i \in 1..Len(calls) : calls[i].kind = "Authorino" /\ calls[i].res = "created"
    /\ authorinos = {[ns |-> "ns2", name |-> "authorino", owner |-> "ns2"]}

\* ------------------------------------------------------------------------
\* Properties of the status reconciler
\* ------------------------------------------------------------------------

\* The step of reconcileStatus from calculateStatus to its return.
StatusStep == spc = "update" /\ spc' = "done"

\* The conditions of a status, as a set.
ConditionsOf(st) == {st.conditions[i] : i \in 1..Len(st.conditions)}

\* The latest status update a pass issued was served.
UpdateServed == updates # <<>> /\ updates[Len(updates)].res = "updated"

\* C6: Status idempotence guard. When the status reconcileStatus computes
\* has the conditions of the status the object holds and the object's
\* observed generation is its generation, the pass issues no status update
\* and leaves the stored object, observed generation included, as it is. In
\* every other case it issues exactly one update, of the status only, that
\* carries the computed conditions and the object's generation as observed
\* generation. Once such an update is served the stored object is up to
\* date for the same inputs, so a pass that follows with no change in
\* between issues none: of two such passes at most one writes.
C6_StatusIdempotenceGuard ==
    [][StatusStep =>
        LET new == calculateStatus(ap, specErr, isAuthConfigReady)
            same == /\ ConditionsOf(ap.status) = ConditionsOf(new)
                    /\ ap.status.observedGeneration = ap.generation
        IN  /\ same => /\ updates' = updates
                       /\ policy' = policy
                       /\ ap' = ap
            /\ ~same => /\ Len(updates') = Len(updates) + 1
                        /\ updates'[Len(updates')].status.observedGeneration = ap.generation
                        /\ updates'[Len(updates')].status.conditions = new.conditions
                        /\ policy'.generation = policy.generation
                        /\ policy'.kind = policy.kind
            /\ (~same /\ updates'[Len(updates')].res = "updated") =>
                    LET again == calculateStatus(policy', specErr, isAuthConfigReady)
                    IN  /\ policy'.status = updates'[Len(updates')].status
                        /\ ConditionsOf(policy'.status) = ConditionsOf(again)
                        /\ policy'.status.observedGeneration = policy'.generation
    ]_vars

\* C6 witness: a pass found the status of a policy of generation 2 that
\* holds another agent's condition up to date, and issued no update.
C6_Witness ==
    /\ spc = "done"
    /\ newStatus # NoStatus
    /\ updates = <<>>
    /\ ~result.err
    /\ ap.generation = 2
    /\ ap.status.observedGeneration = 2
    /\ Len(ap.status.conditions) = 2

\* C7 as stated: after every pass of reconcileStatus that returns no error,
\* the pass that ends on a write conflict included, the stored observed
\* generation is the generation the status was computed from.
C7_ObservedAfterEveryPassWithoutError ==
    [][(StatusStep /\ ~result'.err) =>
            policy'.status.observedGeneration = ap.generation]_vars

\* C7: ObservedGeneration invariant. After every pass of reconcileStatus
\* that returns no error and asks for no requeue (it skipped the write, or
\* its update was served), the stored observed generation is the generation
\* the status was computed from. The pass that ends on a write conflict
\* returns no error and asks for a requeue, and it stores nothing.
C7_ObservedGenerationInvariant ==
    [][StatusStep =>
        /\ (~result'.err /\ ~result'.requeue) =>
                policy'.status.observedGeneration = ap.generation
        /\ result'.requeue =>
                /\ ~result'.err
                /\ updates'[Len(updates')].res = "conflict"
                /\ policy' = policy
    ]_vars

\* C7 witness: an update of the status of a policy of generation 2 was
\* served, and the stored observed generation is 2.
C7_Witness ==
    /\ spc = "done"
    /\ UpdateServed
    /\ ~result.err /\ ~result.requeue
    /\ ap.generation = 2
    /\ policy.status.observedGeneration = 2

\* C15: Status write outcomes. A conflict answer of the store to the status
\* update is no error: reconcileStatus returns no error and asks for a
\* requeue, and the stored object is as the store had it. Any other failure
\* of the update is returned as an error, without a requeue, and nothing is
\* stored either. An update that is served returns neither.
C15_StatusWriteOutcomes ==
    [][(StatusStep /\ Len(updates') = Len(updates) + 1) =>
        LET res == updates'[Len(updates')].res
        IN  /\ res = "conflict" =>
                    (~result'.err /\ result'.requeue /\ policy' = policy)
            /\ res = "error" =>
                    (result'.err /\ ~result'.requeue /\ policy' = policy)
            /\ res = "updated" =>
                    (~result'.err /\ ~result'.requeue)
            /\ res \in {"conflict", "error", "updated"}
    ]_vars

\* C15 witness: the update of a pass was refused with a conflict after
\* another agent had written its condition: the pass asks for a requeue,
\* and the store holds that condition and no Available condition.
C15_Witness ==
    /\ spc = "done"
    /\ updates # <<>> /\ updates[Len(updates)].res = "conflict"
    /\ result.requeue /\ ~result.err
    /\ \E c \in ConditionsOf(policy.status) : c.type = "Enforced"
    /\ \A c \in ConditionsOf(policy.status) : c.type # APAvailableConditionType

\* The step of reconcileStatus up to the fetch of the AuthConfig.
FetchStep == spc = "fetch" /\ spc' # "fetch"

\* The Available condition a spec error calls for.
ReconciliationError(e) == Condition("Available", "False", "ReconciliationError", e)

\* C16: Dependency fetch errors. With no spec error, a failed read of the
\* AuthConfig (an AuthConfig that is not there included) is returned as an
\* error, and the pass computes no status, issues no update and leaves the
\* stored policy as it is. With a spec error the AuthConfig is not read: the
\* pass gets to its status whether or not there is an AuthConfig, computes
\* the ReconciliationError condition with the text of the error, and, unless
\* the object it holds has that status already, issues the update that
\* carries it, which is stored when the store serves it.
C16_DependencyFetchErrors ==
    [][/\ (FetchStep /\ specErr = NoErr /\ authConfig = "absent") => spc' = "done"
       /\ (FetchStep /\ specErr = NoErr /\ spc' = "done") =>
            /\ result'.err /\ ~result'.requeue
            /\ newStatus' = NoStatus
            /\ updates' = <<>>
            /\ policy' = policy
       /\ (FetchStep /\ specErr # NoErr) =>
            /\ spc' = "update"
            /\ isAuthConfigReady'
            /\ result' = result
       /\ (StatusStep /\ specErr # NoErr) =>
            /\ ReconciliationError(specErr) \in ConditionsOf(newStatus')
            /\ \/ /\ updates' = updates
                  /\ ReconciliationError(specErr) \in ConditionsOf(ap.status)
               \/ /\ Len(updates') = Len(updates) + 1
                  /\ ReconciliationError(specErr) \in ConditionsOf(updates'[Len(updates')].status)
                  /\ updates'[Len(updates')].res = "updated" =>
                        ReconciliationError(specErr) \in ConditionsOf(policy'.status)
    ]_vars

\* C16 witness: a pass with a spec error and no AuthConfig has stored the
\* ReconciliationError condition.
C16_Witness ==
    /\ spc = "done"
    /\ specErr = "target not found"
    /\ authConfig = "absent"
    /\ UpdateServed
    /\ ~result.err
    /\ ReconciliationError("target not found") \in ConditionsOf(policy.status)

\* ------------------------------------------------------------------------
\* Properties of the pure functions
\* ------------------------------------------------------------------------

\* The conditions of type Available of the status calculateStatus returned.
AvailableOut == {c \in ConditionsOf(calcOut) : c.type = APAvailableConditionType}

\* C5: Status precedence. For every policy object the status calculateStatus
\* returns has one Available condition: False with reason
\* "ReconciliationError" and the text of the error as message when there is
\* a spec error, whether the AuthConfig is ready or not; False with reason
\* "AuthSchemeNotReady" when there is no spec error and the AuthConfig is not
\* ready; True with reason "<TargetKind>Protected" when there is no spec
\* error and the AuthConfig is ready.
C5_StatusPrecedence ==
    calcOut # NoStatus =>
        /\ Cardinality(AvailableOut) = 1
        /\ \A c \in AvailableOut :
            /\ calcErr # NoErr =>
                    c.status = "False" /\ c.reason = "ReconciliationError" /\ c.message = calcErr
            /\ (calcErr = NoErr /\ ~calcReady) =>
                    c.status = "False" /\ c.reason = "AuthSchemeNotReady"
            /\ (calcErr = NoErr /\ calcReady) =>
                    c.status = "True" /\ c.reason = calcAp.kind \o "Protected"

\* C5 witness: calculateStatus was called with a spec error and an
\* AuthConfig that is not ready, and returned the reconciliation error.
C5_Witness ==
    /\ calcOut # NoStatus
    /\ calcErr = "target not found"
    /\ ~calcReady
    /\ \E c \in AvailableOut : c.reason = "ReconciliationError" /\ c.message = "target not found"

\* A condition of another type than Available.
NotAvailable(c) == c.type # "Available"

\* C17: Condition preservation. The status calculateStatus returns holds
\* every condition of the policy object of another type than Available,
\* unchanged and in the same order, and exactly one condition of type
\* Available, never two; and the call leaves the policy object, its own
\* list of conditions included, as it was.
C17_ConditionPreservation ==
    /\ [](calcOut # NoStatus =>
            /\ SelectSeq(calcOut.conditions, NotAvailable)
                    = SelectSeq(calcAp.status.conditions, NotAvailable)
            /\ Cardinality({i \in 1..Len(calcOut.conditions) :
                                calcOut.conditions[i].type = "Available"}) = 1
            /\ calcOut.observedGeneration = calcAp.status.observedGeneration)
    /\ [][(calcOut = NoStatus /\ calcOut' # NoStatus) => calcAp' = calcAp]_vars

\* C17 witness: a policy object that held a ReconciliationError condition
\* followed by another agent's condition still holds both after the call,
\* and the status returned holds the protected condition in the place of the
\* first and the other agent's condition unchanged.
C17_Witness ==
    /\ calcOut # NoStatus
    /\ calcErr = NoErr /\ calcReady
    /\ Len(calcAp.status.conditions) = 2
    /\ calcAp.status.conditions[1].reason = "ReconciliationError"
    /\ Len(calcOut.conditions) = 2
    /\ calcOut.conditions[1].type = "Available" /\ calcOut.conditions[1].status = "True"
    /\ calcOut.conditions[2] = calcAp.status.conditions[2]
    /\ calcOut.conditions[2].type = "Enforced"

\* The values of the fields of a Limitador the mutator manages, and of those
\* it does not.
Managed(o) ==
    <<o.spec.affinity, o.spec.podDisruptionBudget, o.spec.replicas,
      o.spec.resourceRequirements, o.spec.storage>>
Unmanaged(o) == <<o.type, o.spec.version, o.spec.limits>>

\* C8: Selective merge. After LimitadorMutator(existing, desired) on two
\* Limitadors: when they differed in no managed field (affinity, disruption
\* budget, replicas, resource requirements, storage) the call returned
\* false and existing is as it was; when they differed in a managed field
\* the call returned true, the managed fields of existing are those of
\* desired, and every other field of existing is as it was.
C8_SelectiveMerge ==
    (mutCalls > 0 /\ before.type = LimitadorType /\ desired.type = LimitadorType) =>
        /\ mutErr = NoErr
        /\ Managed(before) = Managed(desired) => (~update /\ existing = before)
        /\ Managed(before) # Managed(desired) =>
                /\ update
                /\ Managed(existing) = Managed(desired)
                /\ Unmanaged(existing) = Unmanaged(before)

\* C8 witness: the two Limitadors differed in their storage and in their
\* version; the call returned true, took the storage and kept the version.
C8_Witness ==
    /\ mutCalls = 1
    /\ before.type = LimitadorType /\ desired.type = LimitadorType
    /\ before.spec.storage # desired.spec.storage
    /\ before.spec.version # desired.spec.version
    /\ update
    /\ existing.spec.storage = desired.spec.storage
    /\ existing.spec.version = before.spec.version

\* C19: Type mismatch fails loudly. After LimitadorMutator(existing, desired)
\* with an existing or a desired object that is no Limitador, the call has
\* returned an error and false, never false with no error, and existing is
\* as it was.
C19_TypeMismatchFailsLoudly ==
    (mutCalls > 0 /\ (before.type # "*v1alpha1.Limitador" \/ desired.type # "*v1alpha1.Limitador")) =>
        /\ mutErr # NoErr
        /\ Len(mutErr) > 0
        /\ ~update
        /\ existing = before

\* C19 witness: the mutator was called with a Limitador and a desired object
\* that is a ConfigMap, and returned an error.
C19_Witness ==
    /\ mutCalls = 1
    /\ before.type = "*v1alpha1.Limitador"
    /\ desired.type = "*v1.ConfigMap"
    /\ mutErr = "*v1alpha1.Limitador is not a *limitadorv1alpha1.Limitador"
    /\ ~update
    /\ existing = before

\* C20: Merge idempotence. After LimitadorMutator(existing, desired) on two
\* Limitadors the managed fields of existing are those of desired; no call
\* changes desired; and a second call right after the first returns false
\* and leaves existing as the first call left it.
C20_MergeIdempotence ==
    /\ []((mutCalls > 0 /\ before.type = "*v1alpha1.Limitador" /\ desired.type = "*v1alpha1.Limitador") =>
            /\ Managed(existing) = Managed(desired)
            /\ mutErr = NoErr
            /\ mutCalls > 1 => (~update /\ existing = before))
    /\ [][desired' = desired]_vars

\* C20 witness: the first call changed existing, and the second call has
\* returned false and left it as it was.
C20_Witness ==
    /\ mutCalls = 2
    /\ before.type = "*v1alpha1.Limitador" /\ desired.type = "*v1alpha1.Limitador"
    /\ ~update
    /\ existing = before
    /\ Managed(existing) = Managed(desired)
    /\ existing.spec.replicas = 2
    /\ existing.spec.limits # desired.spec.limits

====
